---- MODULE Spec2Model ----
(***************************************************************************)
(* Handwritten Form Extractor (src/app.py): the Streamlit session as a     *)
(* state machine.  One action is one user interaction together with the    *)
(* script run it triggers; the extraction loop of "Run Extraction" is      *)
(* unrolled into one step per page.                                        *)
(*                                                                         *)
(* JSON-like values are tagged records:                                    *)
(*   [t |-> "null"], [t |-> "bool", v |-> b], [t |-> "num", v |-> n],      *)
(*   [t |-> "str", v |-> s], [t |-> "list", v |-> <<x1, ..>>],             *)
(*   [t |-> "dict", v |-> << <<k1, x1>>, .. >>]                            *)
(* A dict keeps its items as a sequence of <<key, value>> pairs, in        *)
(* insertion order, as a Python dict does.                                 *)
(***************************************************************************)
EXTENDS Integers, Sequences, FiniteSets, TLC

VARIABLES
    pdf_pages,            \* st.session_state.pdf_pages: number of page images, 0 for None
    last_pdf,             \* st.session_state.last_pdf, "" for None
    selected_pages,       \* st.session_state.selected_pages
    page_order,           \* st.session_state.page_order
    page_schemas,         \* st.session_state.page_schemas: page -> schema
    pages_confirmed,      \* st.session_state.pages_confirmed
    schemas_confirmed,    \* st.session_state.schemas_confirmed
    extraction_complete,  \* st.session_state.extraction_complete
    extracted_data,       \* st.session_state.extracted_data, Null for None
    schema_files,         \* the schema files the script finds in ./schemas (line 80)
    document,             \* the Document: extracted_data as the merge set it (line 213)
    schema_choice,        \* value of the selectbox "schema_<page>" of each page
    widget_state,         \* review widgets the user has edited: key -> value
    pc,                   \* "extracting" inside the Run Extraction loop, "extracted"
                          \* at the end of that script run, "idle" otherwise
    selected,             \* local `selected` of the running / last extraction run
    all_page_data,        \* local `all_page_data` of the running / last run
    progress,             \* value last given to progress.progress, as <<idx, len>>
    calls,                \* extraction calls issued in the running / last run
    final_json,           \* Document handed to the review walk by the last run
    export                \* outcome of the last click on "Send to Therap"

vars == <<pdf_pages, last_pdf, selected_pages, page_order,
          page_schemas, pages_confirmed, schemas_confirmed, extraction_complete,
          extracted_data, schema_files, document, schema_choice, widget_state, pc, selected,
          all_page_data, progress, calls, final_json, export>>

-----------------------------------------------------------------------------
(* Bounds of the model *)

\* largest number of pages of an uploaded PDF
MaxPages == 3
\* largest number of review widgets the user edits in one session
MaxEdits == 1

-----------------------------------------------------------------------------
(* JSON-like values *)

Null == [t |-> "null"]
Bool(b) == [t |-> "bool", v |-> b]
Num(n) == [t |-> "num", v |-> n]
Str(s) == [t |-> "str", v |-> s]
List(xs) == [t |-> "list", v |-> xs]
Dict(kvs) == [t |-> "dict", v |-> kvs]

EmptyDict == Dict(<<>>)

IsDict(x) == x.t = "dict"
IsList(x) == x.t = "list"
IsBool(x) == x.t = "bool"
IsNone(x) == x.t = "null"

\* keys of a dict, in order
Keys(d) == [i \in 1..Len(d.v) |-> d.v[i][1]]
KeySet(d) == {d.v[i][1] : i \in 1..Len(d.v)}
HasKey(d, k) == k \in KeySet(d)
\* d[k]
Get(d, k) == d.v[CHOOSE i \in 1..Len(d.v) : d.v[i][1] = k][2]
\* d[k] = x : an existing key keeps its position, a new key goes last
DictSet(d, k, x) ==
    IF HasKey(d, k)
    THEN Dict([i \in 1..Len(d.v) |-> IF d.v[i][1] = k THEN <<k, x>> ELSE d.v[i]])
    ELSE Dict(Append(d.v, <<k, x>>))

RECURSIVE DictUpdateFrom(_, _, _)
DictUpdateFrom(d, e, i) ==
    IF i > Len(e.v) THEN d
    ELSE DictUpdateFrom(DictSet(d, e.v[i][1], e.v[i][2]), e, i + 1)
\* d.update(e)
DictUpdate(d, e) == DictUpdateFrom(d, e, 1)

\* Python truth value, as used by `x or ""` and `if x`
Truthy(x) ==
    CASE x.t = "null" -> FALSE
      [] x.t = "bool" -> x.v
      [] x.t = "num"  -> x.v # 0
      [] x.t = "str"  -> x.v # ""
      [] OTHER        -> Len(x.v) > 0

RECURSIVE Join(_, _)
\* sep.join(strs)
Join(sep, strs) ==
    IF Len(strs) = 0 THEN ""
    ELSE IF Len(strs) = 1 THEN strs[1]
    ELSE strs[1] \o sep \o Join(sep, Tail(strs))

RECURSIVE PyRepr(_)
\* repr(x)
PyRepr(x) ==
    CASE x.t = "null" -> "None"
      [] x.t = "bool" -> IF x.v THEN "True" ELSE "False"
      [] x.t = "num"  -> ToString(x.v)
      [] x.t = "str"  -> "'" \o x.v \o "'"
      [] x.t = "list" ->
            "[" \o Join(", ", [i \in 1..Len(x.v) |-> PyRepr(x.v[i])]) \o "]"
      [] OTHER ->
            "{" \o Join(", ", [i \in 1..Len(x.v) |->
                       "'" \o x.v[i][1] \o "': " \o PyRepr(x.v[i][2])]) \o "}"

\* str(x)
PyStr(x) == IF x.t = "str" THEN x.v ELSE PyRepr(x)

-----------------------------------------------------------------------------
(* Review tab: the walk over the Document (app.py 217-302) *)

\* st.text_input / st.text_area: the text the user typed into the widget with
\* this key, else the `value` argument, which Streamlit casts to str
TextInput(value, key, ws) ==
    IF key \in DOMAIN ws THEN ws[key] ELSE Str(PyStr(value))

\* st.checkbox: the user's setting of the widget with this key, else `value`
Checkbox(value, key, ws) ==
    IF key \in DOMAIN ws THEN ws[key] ELSE value

\* `x or ""`
OrEmpty(x) == IF Truthy(x) THEN x ELSE Str("")

\* `repr(x) if x is not None else ""`
StrOrEmptyRepr(x) == IF IsNone(x) THEN Str("") ELSE Str(PyRepr(x))

\* `str(x) if x is not None else ""`
StrOrEmpty(x) == IF IsNone(x) THEN Str("") ELSE Str(PyStr(x))

\* lines 239-252: a mapping-valued field of a mapping section
WalkSubdata(section, field, value, ws) ==
    LET val == IF HasKey(value, "properties") /\ IsDict(Get(value, "properties"))
               THEN Get(value, "properties") ELSE value
    IN  Dict([i \in 1..Len(val.v) |->
                <<val.v[i][1],
                  TextInput(OrEmpty(val.v[i][2]),
                            section \o "_" \o field \o "_" \o val.v[i][1], ws)>>])

\* lines 237-273: one field of a mapping section
WalkField(section, field, value, ws) ==
    IF IsDict(value) THEN WalkSubdata(section, field, value, ws)
    ELSE IF IsBool(value) THEN Checkbox(value, section \o "_" \o field, ws)
    ELSE IF IsList(value) THEN
        TextInput(Str(Join(", ", [i \in 1..Len(value.v) |-> PyStr(value.v[i])])),
                  section \o "_" \o field, ws)
    ELSE TextInput(OrEmpty(value), section \o "_" \o field, ws)

\* lines 280-291: one entry of a repeated-entries section (idx counts from 1)
WalkItem(section, idx, item, ws) ==
    Dict([j \in 1..Len(item.v) |->
            <<item.v[j][1],
              TextInput(StrOrEmpty(item.v[j][2]),
                        section \o "_" \o ToString(idx) \o "_" \o item.v[j][1], ws)>>])

\* what the walk yields when a statement of it raises (item.items() on an entry
\* that is no mapping, line 284): the script run ends there
Raised == [t |-> "raise"]

\* lines 230-300: one top-level section
WalkSection(section, fields, ws) ==
    IF IsDict(fields) THEN
        Dict([i \in 1..Len(fields.v) |->
                <<fields.v[i][1],
                  WalkField(section, fields.v[i][1], fields.v[i][2], ws)>>])
    ELSE IF IsList(fields) /\ Len(fields.v) > 0 /\ IsDict(fields.v[1]) THEN
        IF \E i \in 1..Len(fields.v) : ~IsDict(fields.v[i]) THEN Raised
        ELSE List([i \in 1..Len(fields.v) |-> WalkItem(section, i, fields.v[i], ws)])
    ELSE TextInput(StrOrEmpty(fields), section \o "_value", ws)

\* lines 222-300: edited_data built from final_json, or Raised
ReviewWalk(doc, ws) ==
    LET secs == [i \in 1..Len(doc.v) |->
                    <<doc.v[i][1], WalkSection(doc.v[i][1], doc.v[i][2], ws)>>]
    IN  IF \E i \in 1..Len(secs) : secs[i][2] = Raised THEN Raised
        ELSE Dict(secs)

-----------------------------------------------------------------------------
(* Export tab: flatten and projection (app.py 326-365) *)

RECURSIVE flatten_json(_, _)
RECURSIVE FlattenFrom(_, _, _, _)
\* the loop of flatten_json over data.items(), from item i on, into `items`
FlattenFrom(data, parent_key, i, items) ==
    IF i > Len(data.v) THEN items
    ELSE LET k == data.v[i][1]
             v == data.v[i][2]
             new_key == IF parent_key # "" THEN parent_key \o "." \o k ELSE k
         IN  FlattenFrom(data, parent_key, i + 1,
                         IF IsDict(v) THEN DictUpdate(items, flatten_json(v, new_key))
                         ELSE DictSet(items, new_key, v))

\* flatten_json calling itself without the key of the mapping it descends into
flatten_json_unprefixed(data, parent_key) == FlattenFrom(data, "", 1, EmptyDict)

\* flatten_json(data, parent_key, sep=".")
flatten_json(data, parent_key) == FlattenFrom(data, parent_key, 1, EmptyDict)

RECURSIVE ReverseFrom(_, _, _)
ReverseFrom(mapping, i, acc) ==
    IF i > Len(mapping.v) THEN acc
    ELSE ReverseFrom(mapping, i + 1,
                     IF Truthy(mapping.v[i][2])
                     THEN DictSet(acc, mapping.v[i][2].v, Str(mapping.v[i][1]))
                     ELSE acc)

\* a reverse map that keeps the first source of a target, not the last
reverse_map_first(mapping) ==
    ReverseFrom(Dict([i \in 1..Len(mapping.v) |-> mapping.v[Len(mapping.v) + 1 - i]]),
                1, EmptyDict)

\* reverse_map = {v: k for k, v in mapping.items() if v}
reverse_map(mapping) == ReverseFrom(mapping, 1, EmptyDict)

\* a pandas cell without a value
NaN == [t |-> "nan"]

\* pd.DataFrame(columns=cols): the columns, no row
EmptyFrame(cols) == [columns |-> cols, rows |-> 0, cell |-> EmptyDict]

\* the columns of a frame after an assignment to column col: a new one goes last
WithColumn(columns, col) ==
    IF \E i \in 1..Len(columns) : columns[i] = col THEN columns ELSE Append(columns, col)

\* df[col] = <one-row Series holding x>: a frame without rows takes the Series'
\* index, its other columns holding NaN
SetSeries(df, col, x) ==
    LET columns == WithColumn(df.columns, col)
    IN  IF df.rows = 0
        THEN [columns |-> columns, rows |-> 1,
              cell |-> Dict([i \in 1..Len(columns) |->
                               <<columns[i], IF columns[i] = col THEN x ELSE NaN>>])]
        ELSE [df EXCEPT !.columns = columns, !.cell = DictSet(df.cell, col, x)]

\* df[col] = x, x a scalar: every row gets x, a frame without rows gets none
SetScalar(df, col, x) ==
    LET columns == WithColumn(df.columns, col)
    IN  IF df.rows = 0 THEN [df EXCEPT !.columns = columns]
        ELSE [df EXCEPT !.columns = columns, !.cell = DictSet(df.cell, col, x)]

RECURSIVE OfficialFrom(_, _, _, _, _)
\* lines 347-352: the loop over idf_cols, from column i on
OfficialFrom(idf_cols, rmap, flat_data, i, df) ==
    IF i > Len(idf_cols) THEN df
    ELSE LET col == idf_cols[i]
             source_key == IF HasKey(rmap, col) THEN Get(rmap, col) ELSE Null
         IN  OfficialFrom(idf_cols, rmap, flat_data, i + 1,
                 IF Truthy(source_key) /\ HasKey(flat_data, source_key.v)
                 THEN SetSeries(df, col, Get(flat_data, source_key.v))
                 ELSE SetScalar(df, col, Str("")))

\* an official table built from nothing, holding only the columns that get a value
official_df_mapped_only(idf_cols, rmap, flat_data) ==
    OfficialFrom(SelectSeq(idf_cols, LAMBDA c : HasKey(rmap, c)
                                                /\ HasKey(flat_data, Get(rmap, c).v)),
                 rmap, flat_data, 1, EmptyFrame(<<>>))

\* lines 345-352
official_df(idf_cols, rmap, flat_data) ==
    OfficialFrom(idf_cols, rmap, flat_data, 1, EmptyFrame(idf_cols))

\* the targets of the reverse map taken for its sources
mapped_extract_cols_keys(rmap) == KeySet(rmap)

\* line 354: set(reverse_map.values())
mapped_extract_cols(rmap) == {rmap.v[i][2].v : i \in 1..Len(rmap.v)}

\* line 355: the flat keys, in order, that are in no reverse-map value
extra_cols(rmap, flat_data) ==
    SelectSeq(Keys(flat_data), LAMBDA c : c \notin mapped_extract_cols(rmap))

\* line 356
extra_df(rmap, flat_data) ==
    LET cols == extra_cols(rmap, flat_data)
    IN  IF Len(cols) > 0
        THEN [columns |-> cols, rows |-> 1,
              cell |-> Dict([i \in 1..Len(cols) |-> <<cols[i], Get(flat_data, cols[i])>>])]
        ELSE [columns |-> <<>>, rows |-> 0, cell |-> EmptyDict]

\* DataFrame.empty
FrameEmpty(df) == df.rows = 0 \/ Len(df.columns) = 0


-----------------------------------------------------------------------------
(* ocr_extractor: extract_page_json and merge_page_results.  app.py imports  *)
(* them (line 11); they are modelled from sections 4.2 and 4.3 of the spec.  *)

\* the extraction service failing for a page
Fail == [t |-> "fail"]

\* section 4.2: a failure degrades the page's result to an empty mapping
extract_page_json(outcome) == IF outcome.t = "fail" THEN EmptyDict ELSE outcome

AllDicts(x) == \A i \in 1..Len(x.v) : IsDict(x.v[i])

\* mapping > list > scalar
Specificity(x) == IF IsDict(x) THEN 3 ELSE IF IsList(x) THEN 2 ELSE 1

RECURSIVE MergeValue(_, _)
RECURSIVE MergeInto(_, _, _)
\* the items of mapping b, from item i on, merged into mapping acc
MergeInto(acc, b, i) ==
    IF i > Len(b.v) THEN acc
    ELSE LET k == b.v[i][1]
         IN  MergeInto(DictSet(acc, k, IF HasKey(acc, k)
                                        THEN MergeValue(Get(acc, k), b.v[i][2])
                                        ELSE b.v[i][2]),
                       b, i + 1)

\* section 4.3: the value of a key that an earlier result (a) and a later one (b) hold
MergeValue(a, b) ==
    IF IsDict(a) /\ IsDict(b) THEN MergeInto(a, b, 1)
    ELSE IF IsList(a) /\ IsList(b) /\ AllDicts(a) /\ AllDicts(b) THEN List(a.v \o b.v)
    ELSE IF Specificity(a) = Specificity(b) THEN b
    ELSE IF ~Truthy(b) THEN a
    ELSE IF ~Truthy(a) THEN b
    ELSE IF Specificity(a) > Specificity(b) THEN a ELSE b

RECURSIVE MergeFrom(_, _, _)
MergeFrom(results, i, acc) ==
    IF i > Len(results) THEN acc
    ELSE MergeFrom(results, i + 1, MergeValue(acc, results[i]))

\* merge(ordered PageResult sequence) -> Document
merge_page_results(results) == MergeFrom(results, 1, EmptyDict)

-----------------------------------------------------------------------------
(* The environment: files, the extraction service, the user's input *)

\* the PDFs the user uploads: a name, and the pages convert_from_path finds
Pdfs == {[name |-> "a.pdf", pages |-> MaxPages], [name |-> "b.pdf", pages |-> 1]}

\* stems of the files of ./schemas, sorted (line 80); a schema is opaque and
\* stands for itself
SchemaNames == <<"consent", "intake">>
\* what a selectbox shows before the user chooses: the first option
DefaultSchema == SchemaNames[1]

Page1 ==
    Dict(<< <<"Demographics", Dict(<< <<"name", Str("Jane Doe")>>,
                                      <<"age", Num(41)>> >>)>> >>)
Page2 ==
    Dict(<< <<"Demographics", Dict(<< <<"phone", Str("555-1000")>> >>)>>,
            <<"Medications", List(<< Dict(<< <<"drug", Str("Aspirin")>>,
                                             <<"dose", Str("81mg")>> >>) >>)>> >>)
Page3 ==
    Dict(<< <<"Consent", Dict(<< <<"signed", Bool(TRUE)>>,
                                 <<"allergies", List(<<Str("nuts"), Num(7)>>)>>,
                                 <<"guardian", Dict(<< <<"name", Str("Al")>>,
                                                      <<"minor", Bool(FALSE)>> >>)>> >>)>>,
            <<"Visits", List(<< Dict(<< <<"date", Str("2024-01-05")>>,
                                        <<"count", Num(2)>> >>),
                                Dict(<< <<"date", Null>>,
                                        <<"billed", Bool(FALSE)>> >>) >>)>>,
            <<"Notes", Null>> >>)
Page4 ==
    Dict(<< <<"Visit", Dict(<< <<"site", Dict(<< <<"properties",
                                                   Dict(<< <<"city", Str("Mesa")>> >>)>>,
                                                 <<"type", Str("object")>> >>)>>,
                               <<"extras", EmptyDict>>,
                               <<"count", Num(0)>> >>)>>,
            <<"Codes", List(<<Str("a"), Str("b")>>)>> >>)
Page5 ==
    Dict(<< <<"Medications", List(<< Dict(<< <<"drug", Str("Zinc")>>,
                                             <<"dose", Num(5)>> >>),
                                     Str("see chart") >>)>> >>)

\* what the extraction service reads off page page_num when it succeeds
PageContent(page_num) ==
    CASE page_num = 1 -> Page1
      [] page_num = 2 -> Page2
      [] OTHER -> Dict(<< <<"Appendix", Dict(<< <<"sheet", Num(page_num)>> >>)>> >>)

\* what one extraction call for page page_num ends in
ServiceOutcomes(page_num) == {PageContent(page_num), Fail}

\* page results of finished extraction loops, for the review and export checks
ReviewRuns ==
    {<<Page1>>, <<Page2>>, <<Page3>>, <<Page4>>, <<Page5>>, <<Page1, Page2>>,
     <<EmptyDict>>}

\* the "mappings" object of field_mapping.json: source path -> target column
NoMappings == EmptyDict
NameMapping == Dict(<< <<"Demographics.name", Str("PatientName")>> >>)
WideMapping ==
    Dict(<< <<"Demographics.name", Str("PatientName")>>,
            <<"Demographics.phone", Str("PatientName")>>,
            <<"Demographics.age", Str("Age")>>,
            <<"Consent.signed", Str("")>>,
            <<"Medications", Str("Meds")>>,
            <<"Visit.site.city", Str("DOB")>> >>)
Mappings == {NoMappings, NameMapping, WideMapping}

\* the columns of the IDF provider Excel (line 343)
ColOrders == {<<"PatientName", "DOB">>, <<"DOB", "Meds", "PatientName">>, <<"DOB">>}

\* what the export finds on disk
ExportEnvs ==
    {[idf |-> FALSE, mapping_file |-> TRUE, mapping |-> NoMappings, idf_cols |-> <<>>],
     [idf |-> TRUE, mapping_file |-> FALSE, mapping |-> NoMappings, idf_cols |-> <<>>]}
    \cup [idf : {TRUE}, mapping_file : {TRUE}, mapping : Mappings, idf_cols : ColOrders]

\* what the exports of a whole session find on disk
SessionEnvs ==
    {env \in ExportEnvs : env.idf /\ env.mapping_file =>
                             env.mapping = NameMapping /\ env.idf_cols = <<"PatientName", "DOB">>}

\* what the user sets a review widget to: a text typed, a checkbox setting
EditValues == {Str("N/A"), Bool(TRUE), Bool(FALSE)}


-----------------------------------------------------------------------------
(* The script run *)

Pages(n) == 1..n

RECURSIVE SortedDescending(_)
\* Sorted with the order reversed: sorted(S, reverse=True)
SortedDescending(S) ==
    IF S = {} THEN <<>>
    ELSE LET m == CHOOSE x \in S : \A y \in S : x >= y
         IN  <<m>> \o SortedDescending(S \ {m})

RECURSIVE Sorted(_)
\* sorted(S), S a set of page numbers
Sorted(S) ==
    IF S = {} THEN <<>>
    ELSE LET m == CHOOSE x \in S : \A y \in S : x <= y
         IN  <<m>> \o Sorted(S \ {m})

NoFrame == [columns |-> <<>>, rows |-> 0, cell |-> EmptyDict]

\* no click on "Send to Therap" in this script run
NoExport ==
    [status |-> "none", mapping |-> EmptyDict, idf_cols |-> <<>>,
     flat_data |-> EmptyDict, official_df |-> NoFrame, extra_df |-> NoFrame,
     official_file |-> FALSE, extra_file |-> FALSE]

\* SendToTherap with the checks of the IDF file and of the mapping file left
\* until after the official file is written
SendToTherapWriteFirst(edited_data, env) ==
    IF ~Truthy(edited_data) THEN [NoExport EXCEPT !.status = "no_data"]
    ELSE IF ~env.idf THEN [NoExport EXCEPT !.status = "no_idf", !.official_file = TRUE]
    ELSE IF ~env.mapping_file
    THEN [NoExport EXCEPT !.status = "raised", !.official_file = TRUE]
    ELSE LET rmap == reverse_map(env.mapping)
             flat_data == flatten_json(edited_data, "")
             extra == extra_df(rmap, flat_data)
         IN  [status |-> "done", mapping |-> env.mapping, idf_cols |-> env.idf_cols,
              flat_data |-> flat_data,
              official_df |-> official_df(env.idf_cols, rmap, flat_data),
              extra_df |-> extra,
              official_file |-> TRUE,
              extra_file |-> ~FrameEmpty(extra)]

\* lines 311-365: the click on "Send to Therap" with edited_data from the walk
SendToTherap(edited_data, env) ==
    IF ~Truthy(edited_data) THEN [NoExport EXCEPT !.status = "no_data"]
    ELSE IF ~env.idf THEN [NoExport EXCEPT !.status = "no_idf"]
    ELSE IF ~env.mapping_file THEN [NoExport EXCEPT !.status = "raised"]
    ELSE LET rmap == reverse_map(env.mapping)
             flat_data == flatten_json(edited_data, "")
             extra == extra_df(rmap, flat_data)
         IN  [status |-> "done", mapping |-> env.mapping, idf_cols |-> env.idf_cols,
              flat_data |-> flat_data,
              official_df |-> official_df(env.idf_cols, rmap, flat_data),
              extra_df |-> extra,
              official_file |-> TRUE,
              extra_file |-> ~FrameEmpty(extra)]

\* an assignment loop that runs only while page_schemas is empty
AssignSchemasOnce(ps, sel, choice) ==
    IF ps # <<>> THEN ps ELSE [p \in sel |-> choice[p]]

\* lines 163-175: page_schemas after the assignment loop over the selection
AssignSchemas(ps, sel, choice) ==
    [p \in (DOMAIN ps) \cup sel |-> IF p \in sel THEN choice[p] ELSE ps[p]]

\* the selectboxes after a script run: one that was not drawn loses its state
KeepChoices(drawn, choice) ==
    [p \in Pages(MaxPages) |-> IF p \in drawn THEN choice[p] ELSE DefaultSchema]

\* the widgets the review tab draws for one section: <<key, kind>>
SectionWidgets(section, fields) ==
    IF IsDict(fields) THEN
        UNION {LET field == fields.v[i][1]
                   value == fields.v[i][2]
                   val == IF IsDict(value) /\ HasKey(value, "properties")
                              /\ IsDict(Get(value, "properties"))
                          THEN Get(value, "properties") ELSE value
               IN  IF IsDict(value)
                   THEN {<<section \o "_" \o field \o "_" \o val.v[j][1], "text">>
                            : j \in 1..Len(val.v)}
                   ELSE IF IsBool(value)
                   THEN {<<section \o "_" \o field, "check">>}
                   ELSE {<<section \o "_" \o field, "text">>}
               : i \in 1..Len(fields.v)}
    ELSE IF IsList(fields) /\ Len(fields.v) > 0 /\ IsDict(fields.v[1]) THEN
        UNION {{<<section \o "_" \o ToString(i) \o "_" \o fields.v[i].v[j][1], "text">>
                   : j \in 1..Len(fields.v[i].v)}
               : i \in 1..Len(fields.v)}
    ELSE {<<section \o "_value", "text">>}

\* the widgets the review tab draws for a document its walk goes through
ReviewWidgets(doc) ==
    UNION {SectionWidgets(doc.v[i][1], doc.v[i][2]) : i \in 1..Len(doc.v)}

\* A script run from line 87 on with no button clicked, the session holding
\* the given values: the schema assignment once the pages are confirmed
\* (163-175), the review walk once extraction is complete (217-302).  The run
\* stops at line 117, 159 or 220 otherwise, and where the walk raises.
ScriptRun(has_pdf, sel, pconf, choice, ps, complete, data, ws) ==
    /\ schema_choice' = KeepChoices(IF has_pdf /\ pconf THEN sel ELSE {}, choice)
    /\ page_schemas' = IF has_pdf /\ pconf THEN AssignSchemas(ps, sel, choice) ELSE ps
    /\ IF has_pdf /\ pconf /\ complete
       THEN /\ final_json' = data
            /\ extracted_data' = LET edited_data == ReviewWalk(data, ws)
                                 IN  IF edited_data = Raised THEN data ELSE edited_data
       ELSE /\ final_json' = Null
            /\ extracted_data' = data

\* the locals of an extraction run are gone in a later script run
NoRunLocals ==
    /\ pc' = "idle"
    /\ selected' = <<>>
    /\ all_page_data' = <<>>
    /\ progress' = <<0, 0>>
    /\ calls' = <<>>

-----------------------------------------------------------------------------
(* The session *)

\* init_state (22-31) in a fresh session, nothing in the uploader
Init ==
    /\ pdf_pages = 0
    /\ last_pdf = ""
    /\ selected_pages = {}
    /\ page_order = <<>>
    /\ page_schemas = <<>>
    /\ pages_confirmed = FALSE
    /\ schemas_confirmed = FALSE
    /\ extraction_complete = FALSE
    /\ extracted_data = Null
    /\ schema_files \in {<<>>, SchemaNames}
    /\ document = Null
    /\ schema_choice = [p \in Pages(MaxPages) |-> DefaultSchema]
    /\ widget_state = <<>>
    /\ pc = "idle"
    /\ selected = <<>>
    /\ all_page_data = <<>>
    /\ progress = <<0, 0>>
    /\ calls = <<>>
    /\ final_json = Null
    /\ export = NoExport

\* Upload with an init_state that leaves schemas_confirmed and
\* extraction_complete as they are
UploadKeepFlags(name, n) ==
    /\ schema_files # <<>>
    /\ pc # "extracting"
    /\ IF name # last_pdf
       THEN /\ pdf_pages' = n
            /\ last_pdf' = name
            /\ page_order' = [i \in 1..n |-> i]
            /\ selected_pages' = Pages(n)
            /\ pages_confirmed' = FALSE
            /\ UNCHANGED <<schemas_confirmed, extraction_complete>>
            /\ document' = Null
            /\ widget_state' = <<>>
            /\ UNCHANGED schema_files
            /\ ScriptRun(TRUE, Pages(n), FALSE, schema_choice, <<>>, FALSE, Null, <<>>)
       ELSE /\ UNCHANGED <<schema_files, document, pdf_pages, last_pdf, page_order, selected_pages,
                           pages_confirmed, schemas_confirmed, extraction_complete,
                           widget_state>>
            /\ ScriptRun(pdf_pages > 0, selected_pages, pages_confirmed, schema_choice,
                         page_schemas, extraction_complete, extracted_data, widget_state)
    /\ NoRunLocals
    /\ export' = NoExport

\* 64, 87-97: the user puts a PDF of n pages into the uploader.  The script
\* reads the uploader only here, and only to compare the name with last_pdf.
Upload(name, n) ==
    /\ schema_files # <<>>
    /\ pc # "extracting"
    /\ IF name # last_pdf
       THEN /\ pdf_pages' = n
            /\ last_pdf' = name
            /\ page_order' = [i \in 1..n |-> i]
            /\ selected_pages' = Pages(n)
            /\ pages_confirmed' = FALSE
            /\ schemas_confirmed' = FALSE
            /\ extraction_complete' = FALSE
            /\ document' = Null
            /\ widget_state' = <<>>
            /\ UNCHANGED schema_files
            /\ ScriptRun(TRUE, Pages(n), FALSE, schema_choice, <<>>, FALSE, Null, <<>>)
       ELSE /\ UNCHANGED <<schema_files, document, pdf_pages, last_pdf, page_order, selected_pages,
                           pages_confirmed, schemas_confirmed, extraction_complete,
                           widget_state>>
            /\ ScriptRun(pdf_pages > 0, selected_pages, pages_confirmed, schema_choice,
                         page_schemas, extraction_complete, extracted_data, widget_state)
    /\ NoRunLocals
    /\ export' = NoExport

\* 126-130: "Select All", then the rerun
SelectAll ==
    /\ schema_files # <<>>
    /\ pc # "extracting"
    /\ pdf_pages > 0
    /\ selected_pages' = Pages(pdf_pages)
    /\ UNCHANGED <<schema_files, document, pdf_pages, last_pdf, page_order, pages_confirmed,
                   schemas_confirmed, extraction_complete, widget_state>>
    /\ ScriptRun(TRUE, Pages(pdf_pages), pages_confirmed, schema_choice,
                 page_schemas, extraction_complete, extracted_data, widget_state)
    /\ NoRunLocals
    /\ export' = NoExport

\* 133-135: "Deselect All", then the rerun
DeselectAll ==
    /\ schema_files # <<>>
    /\ pc # "extracting"
    /\ pdf_pages > 0
    /\ selected_pages' = {}
    /\ UNCHANGED <<schema_files, document, pdf_pages, last_pdf, page_order, pages_confirmed,
                   schemas_confirmed, extraction_complete, widget_state>>
    /\ ScriptRun(TRUE, {}, pages_confirmed, schema_choice,
                 page_schemas, extraction_complete, extracted_data, widget_state)
    /\ NoRunLocals
    /\ export' = NoExport

\* 138-153: "Confirm Selected Pages" with the checkboxes the user has ticked
ConfirmPages(new_selection) ==
    /\ schema_files # <<>>
    /\ pc # "extracting"
    /\ pdf_pages > 0
    /\ ~pages_confirmed
    /\ selected_pages' = new_selection
    /\ pages_confirmed' = TRUE
    /\ UNCHANGED <<schema_files, document, pdf_pages, last_pdf, page_order,
                   schemas_confirmed, extraction_complete, widget_state>>
    /\ ScriptRun(TRUE, new_selection, TRUE, schema_choice,
                 page_schemas, extraction_complete, extracted_data, widget_state)
    /\ NoRunLocals
    /\ export' = NoExport

\* 169-174: the user picks schema s in the selectbox of page p
ChooseSchema(p, s) ==
    /\ schema_files # <<>>
    /\ pc # "extracting"
    /\ pdf_pages > 0
    /\ pages_confirmed
    /\ ~schemas_confirmed
    /\ p \in selected_pages
    /\ schema_choice[p] # s
    /\ UNCHANGED <<schema_files, document, pdf_pages, last_pdf, page_order, selected_pages,
                   pages_confirmed, schemas_confirmed, extraction_complete,
                   widget_state>>
    /\ ScriptRun(TRUE, selected_pages, TRUE, [schema_choice EXCEPT ![p] = s],
                 page_schemas, extraction_complete, extracted_data, widget_state)
    /\ NoRunLocals
    /\ export' = NoExport

\* ConfirmSchemas with the schema section drawn before the pages are confirmed:
\* the run does not stop at line 159
ConfirmSchemasUngated ==
    /\ schema_files # <<>>
    /\ pc # "extracting"
    /\ pdf_pages > 0
    /\ ~schemas_confirmed
    /\ schemas_confirmed' = TRUE
    /\ UNCHANGED <<schema_files, document, pdf_pages, last_pdf, page_order, selected_pages,
                   pages_confirmed, extraction_complete, widget_state>>
    /\ ScriptRun(TRUE, selected_pages, pages_confirmed, schema_choice,
                 page_schemas, extraction_complete, extracted_data, widget_state)
    /\ NoRunLocals
    /\ export' = NoExport

\* 177-180: "Confirm Schemas", then the rerun
ConfirmSchemas ==
    /\ schema_files # <<>>
    /\ pc # "extracting"
    /\ pdf_pages > 0
    /\ pages_confirmed
    /\ ~schemas_confirmed
    /\ schemas_confirmed' = TRUE
    /\ UNCHANGED <<schema_files, document, pdf_pages, last_pdf, page_order, selected_pages,
                   pages_confirmed, extraction_complete, widget_state>>
    /\ ScriptRun(TRUE, selected_pages, TRUE, schema_choice,
                 page_schemas, extraction_complete, extracted_data, widget_state)
    /\ NoRunLocals
    /\ export' = NoExport


\* RunExtraction with the button drawn also when extraction is complete
RunExtractionAgain ==
    /\ schema_files # <<>>
    /\ pc # "extracting"
    /\ pdf_pages > 0
    /\ pages_confirmed
    /\ schemas_confirmed
    /\ schema_choice' = KeepChoices(selected_pages, schema_choice)
    /\ page_schemas' = AssignSchemas(page_schemas, selected_pages, schema_choice)
    /\ pc' = "extracting"
    /\ selected' = Sorted(selected_pages)
    /\ all_page_data' = <<>>
    /\ progress' = <<0, 0>>
    /\ calls' = <<>>
    /\ final_json' = Null
    /\ export' = NoExport
    /\ UNCHANGED <<schema_files, document, pdf_pages, last_pdf, page_order, selected_pages,
                   pages_confirmed, schemas_confirmed, extraction_complete,
                   extracted_data, widget_state>>

\* 186-192: "Run Extraction" is clicked; the run reaches the loop
RunExtraction ==
    /\ schema_files # <<>>
    /\ pc # "extracting"
    /\ pdf_pages > 0
    /\ pages_confirmed
    /\ schemas_confirmed
    /\ ~extraction_complete
    /\ schema_choice' = KeepChoices(selected_pages, schema_choice)
    /\ page_schemas' = AssignSchemas(page_schemas, selected_pages, schema_choice)
    /\ pc' = "extracting"
    /\ selected' = Sorted(selected_pages)
    /\ all_page_data' = <<>>
    /\ progress' = <<0, 0>>
    /\ calls' = <<>>
    /\ final_json' = Null
    /\ export' = NoExport
    /\ UNCHANGED <<schema_files, document, pdf_pages, last_pdf, page_order, selected_pages,
                   pages_confirmed, schemas_confirmed, extraction_complete,
                   extracted_data, widget_state>>

\* ExtractPage with a failing call ending the run: the exception leaves the
\* loop, nothing is merged
ExtractPageAbort(outcome) ==
    /\ pc = "extracting"
    /\ Len(all_page_data) < Len(selected)
    /\ LET idx == Len(all_page_data) + 1
           page_num == selected[idx]
       IN  /\ calls' = Append(calls, [page_num |-> page_num,
                                      schema |-> page_schemas[page_num],
                                      outcome |-> outcome])
           /\ IF outcome.t = "fail"
              THEN /\ pc' = "idle"
                   /\ UNCHANGED <<all_page_data, progress>>
              ELSE /\ pc' = pc
                   /\ all_page_data' = Append(all_page_data, outcome)
                   /\ progress' = <<idx, Len(selected)>>
    /\ UNCHANGED <<schema_files, document, pdf_pages, last_pdf, selected_pages, page_order,
                   page_schemas, pages_confirmed, schemas_confirmed,
                   extraction_complete, extracted_data, schema_choice, widget_state,
                   selected, final_json, export>>

\* ExtractPage with the schema looked up by the loop index instead of the page
ExtractPageIndexSchema(outcome) ==
    /\ pc = "extracting"
    /\ Len(all_page_data) < Len(selected)
    /\ LET idx == Len(all_page_data) + 1
           page_num == selected[idx]
           schema == IF idx \in DOMAIN page_schemas THEN page_schemas[idx]
                     ELSE DefaultSchema
       IN  /\ calls' = Append(calls, [page_num |-> page_num, schema |-> schema,
                                      outcome |-> outcome])
           /\ all_page_data' = Append(all_page_data, extract_page_json(outcome))
           /\ progress' = <<idx, Len(selected)>>
    /\ UNCHANGED <<schema_files, document, pdf_pages, last_pdf, selected_pages, page_order,
                   page_schemas, pages_confirmed, schemas_confirmed,
                   extraction_complete, extracted_data, schema_choice, widget_state,
                   pc, selected, final_json, export>>

\* 194-211: one pass of the loop; the service answers the call with `outcome`
ExtractPage(outcome) ==
    /\ pc = "extracting"
    /\ Len(all_page_data) < Len(selected)
    /\ LET idx == Len(all_page_data) + 1
           page_num == selected[idx]
           schema == page_schemas[page_num]
           page_json == extract_page_json(outcome)
       IN  /\ page_num \in Pages(pdf_pages)
           /\ page_num \in DOMAIN page_schemas
           /\ calls' = Append(calls, [page_num |-> page_num, schema |-> schema,
                                      outcome |-> outcome])
           /\ all_page_data' = Append(all_page_data, page_json)
           /\ progress' = <<idx, Len(selected)>>
    /\ UNCHANGED <<schema_files, document, pdf_pages, last_pdf, selected_pages, page_order,
                   page_schemas, pages_confirmed, schemas_confirmed,
                   extraction_complete, extracted_data, schema_choice, widget_state,
                   pc, selected, final_json, export>>

\* how the call for the page the loop is at can end
PendingOutcomes ==
    IF pc = "extracting" /\ Len(all_page_data) < Len(selected)
    THEN ServiceOutcomes(selected[Len(all_page_data) + 1])
    ELSE {}

\* 213-215 and the rest of that script run: merge, then the review walk
FinishExtraction ==
    /\ pc = "extracting"
    /\ Len(all_page_data) = Len(selected)
    /\ extraction_complete' = TRUE
    /\ pc' = "extracted"
    /\ document' = merge_page_results(all_page_data)
    /\ ScriptRun(TRUE, selected_pages, TRUE, schema_choice, page_schemas, TRUE,
                 merge_page_results(all_page_data), widget_state)
    /\ export' = NoExport
    /\ UNCHANGED <<schema_files, pdf_pages, last_pdf, selected_pages, page_order,
                   pages_confirmed, schemas_confirmed, widget_state, selected,
                   all_page_data, progress, calls>>

\* the review tab was drawn to its end in the last script run
ReviewDrawn ==
    /\ pdf_pages > 0
    /\ pages_confirmed
    /\ extraction_complete
    /\ ReviewWalk(extracted_data, widget_state) # Raised

\* the widgets the user can edit
DrawnWidgets == IF ReviewDrawn THEN ReviewWidgets(extracted_data) ELSE {}

\* 246-299: the user sets the review widget with this key to val
EditWidget(key, val) ==
    /\ schema_files # <<>>
    /\ pc # "extracting"
    /\ ReviewDrawn
    /\ \E w \in DrawnWidgets :
          /\ w[1] = key
          /\ IF w[2] = "check" THEN IsBool(val) ELSE val.t = "str"
    /\ Cardinality(DOMAIN widget_state \cup {key}) <= MaxEdits
    /\ LET ws == [k \in DOMAIN widget_state \cup {key} |->
                     IF k = key THEN val ELSE widget_state[k]]
       IN  /\ ws # widget_state
           /\ widget_state' = ws
           /\ ScriptRun(TRUE, selected_pages, TRUE, schema_choice, page_schemas, TRUE,
                        extracted_data, ws)
    /\ UNCHANGED <<schema_files, document, pdf_pages, last_pdf, page_order, selected_pages,
                   pages_confirmed, schemas_confirmed, extraction_complete>>
    /\ NoRunLocals
    /\ export' = NoExport

\* 304-365: "Send to Therap" is clicked; the run finds env on disk
Export(env) ==
    /\ schema_files # <<>>
    /\ pc # "extracting"
    /\ ReviewDrawn
    /\ ScriptRun(TRUE, selected_pages, TRUE, schema_choice, page_schemas, TRUE,
                 extracted_data, widget_state)
    /\ export' = SendToTherap(ReviewWalk(extracted_data, widget_state), env)
    /\ UNCHANGED <<schema_files, document, pdf_pages, last_pdf, page_order, selected_pages,
                   pages_confirmed, schemas_confirmed, extraction_complete,
                   widget_state>>
    /\ NoRunLocals

\* a script run that no click of the above causes (a download button, a tab)
Rerun ==
    /\ schema_files # <<>>
    /\ pc # "extracting"
    /\ ScriptRun(pdf_pages > 0, selected_pages, pages_confirmed, schema_choice,
                 page_schemas, extraction_complete, extracted_data, widget_state)
    /\ UNCHANGED <<schema_files, document, pdf_pages, last_pdf, page_order, selected_pages,
                   pages_confirmed, schemas_confirmed, extraction_complete,
                   widget_state>>
    /\ NoRunLocals
    /\ export' = NoExport

\* 79-83: a script run that finds no schema file stops before it reads the
\* uploader or draws a tab, whatever the user did
NoSchemasStop ==
    /\ schema_files = <<>>
    /\ UNCHANGED vars

Next ==
    \/ NoSchemasStop
    \/ \E pdf \in Pdfs : Upload(pdf.name, pdf.pages)
    \/ SelectAll
    \/ DeselectAll
    \/ \E new_selection \in SUBSET Pages(pdf_pages) : ConfirmPages(new_selection)
    \/ \E p \in Pages(MaxPages), s \in {SchemaNames[i] : i \in 1..Len(SchemaNames)} :
          ChooseSchema(p, s)
    \/ ConfirmSchemas
    \/ RunExtraction
    \/ \E outcome \in PendingOutcomes : ExtractPage(outcome)
    \/ FinishExtraction
    \/ \E w \in DrawnWidgets, val \in EditValues : EditWidget(w[1], val)
    \/ \E env \in SessionEnvs : Export(env)
    \/ Rerun

Spec == Init /\ [][Next]_vars

-----------------------------------------------------------------------------
(* Review and export on their own: the session at the end of an extraction  *)
(* loop over a freshly uploaded PDF, every page selected, with the page     *)
(* results of ReviewRuns; then the merge, the review walk, edits, exports   *)
(* with every file content of ExportEnvs.                                   *)

InitReview ==
    \E run \in ReviewRuns :
        /\ pdf_pages = Len(run)
        /\ last_pdf = "a.pdf"
        /\ selected_pages = Pages(Len(run))
        /\ page_order = [i \in 1..Len(run) |-> i]
        /\ page_schemas = [p \in Pages(Len(run)) |-> DefaultSchema]
        /\ pages_confirmed = TRUE
        /\ schemas_confirmed = TRUE
        /\ extraction_complete = FALSE
        /\ extracted_data = Null
        /\ schema_files = SchemaNames
        /\ document = Null
        /\ schema_choice = [p \in Pages(MaxPages) |-> DefaultSchema]
        /\ widget_state = <<>>
        /\ pc = "extracting"
        /\ selected = [i \in 1..Len(run) |-> i]
        /\ all_page_data = run
        /\ progress = <<Len(run), Len(run)>>
        /\ calls = [i \in 1..Len(run) |->
                       [page_num |-> i, schema |-> DefaultSchema, outcome |-> run[i]]]
        /\ final_json = Null
        /\ export = NoExport

NextReview ==
    \/ FinishExtraction
    \/ \E w \in DrawnWidgets, val \in EditValues : EditWidget(w[1], val)
    \/ \E env \in ExportEnvs : Export(env)
    \/ Rerun

SpecReview == InitReview /\ [][NextReview]_vars


-----------------------------------------------------------------------------
(* Properties of the extraction run *)

\* an extraction run is under way, or the script run that held it has just ended
InRun == pc \in {"extracting", "extracted"}

\* the pages the extraction service has been called for, with repetitions
CallsFor(p) == {i \in 1..Len(calls) : calls[i].page_num = p}

\* C1: a failing extraction call does not abort the run.  The failed page puts
\* an empty mapping at its place in all_page_data, every other page called in
\* the run keeps its result there, the loop goes on to the next selected page
\* or to the merge, and the run ends with every selected page called,
\* extraction_complete set and the merge of all the page results handed to
\* the review, the sections of the pages that did not fail among its keys.
C1_FailureIsolated ==
    (\E i \in 1..Len(calls) : calls[i].outcome = Fail) =>
        /\ InRun
        /\ Len(all_page_data) = Len(calls)
        /\ \A i \in 1..Len(calls) :
              all_page_data[i] = IF calls[i].outcome = Fail THEN EmptyDict
                                 ELSE calls[i].outcome
        /\ (pc = "extracting" /\ calls[Len(calls)].outcome = Fail) =>
              IF Len(calls) < Len(selected)
              THEN \E outcome \in ServiceOutcomes(selected[Len(calls) + 1]) :
                      ENABLED ExtractPage(outcome)
              ELSE ENABLED FinishExtraction
        /\ pc = "extracted" =>
              /\ Len(calls) = Len(selected)
              /\ extraction_complete
              /\ final_json = merge_page_results(all_page_data)
              /\ \A i \in 1..Len(calls) : KeySet(all_page_data[i]) \subseteq KeySet(final_json)

\* C1 witness: page 2 of 3 failed, pages 1 and 3 were extracted, the run is
\* complete and the merged Document holds the sections of pages 1 and 3
C1_Witness ==
    /\ pc = "extracted"
    /\ extraction_complete
    /\ Len(calls) = 3
    /\ calls[1].outcome # Fail
    /\ calls[2].outcome = Fail
    /\ calls[3].outcome # Fail
    /\ KeySet(final_json) = KeySet(PageContent(1)) \cup KeySet(PageContent(3))

\* C2: within a run the pages are called one at a time in strictly ascending
\* page number: the k-th call is for the k-th smallest selected page, and
\* all_page_data, the sequence handed to the merge, holds at place k the
\* result of that call.
C2_PageOrder ==
    InRun =>
        /\ Len(all_page_data) = Len(calls)
        /\ Len(calls) <= Len(selected)
        /\ Len(selected) = Cardinality(selected_pages)
        /\ \A k \in 1..Len(selected) :
              /\ selected[k] \in selected_pages
              /\ Cardinality({q \in selected_pages : q < selected[k]}) = k - 1
        /\ \A j, k \in 1..Len(calls) : j < k => calls[j].page_num < calls[k].page_num
        /\ \A k \in 1..Len(calls) :
              /\ calls[k].page_num = selected[k]
              /\ all_page_data[k] = extract_page_json(calls[k].outcome)
              /\ calls[k].outcome # Fail => all_page_data[k] = PageContent(selected[k])
        /\ pc = "extracted" => final_json = merge_page_results(all_page_data)

\* C2 witness: pages 1 and 3 of 3 were selected and both extracted; the result
\* of page 3 is second
C2_Witness ==
    /\ pc = "extracted"
    /\ selected_pages = {1, 3}
    /\ Len(all_page_data) = 2
    /\ all_page_data[1] = PageContent(1)
    /\ all_page_data[2] = PageContent(3)

\* C3: in a run the service is called at most once per page, only for selected
\* pages, each call carrying the page's number (1-based, a page of the PDF) and
\* the schema page_schemas holds for that page, which is the one its selectbox
\* shows; at the end of the run every selected page has been called exactly once.
C3_OncePerSelectedPage ==
    InRun =>
        /\ \A p \in Pages(MaxPages) :
              /\ Cardinality(CallsFor(p)) <= 1
              /\ p \notin selected_pages => CallsFor(p) = {}
              /\ (pc = "extracted" /\ p \in selected_pages) => Cardinality(CallsFor(p)) = 1
        /\ \A i \in 1..Len(calls) :
              /\ calls[i].page_num \in Pages(pdf_pages)
              /\ calls[i].schema = page_schemas[calls[i].page_num]
              /\ calls[i].schema = schema_choice[calls[i].page_num]

\* C3 witness: pages 1 and 3 selected, page 3 given the second schema, the run
\* complete with two calls
C3_Witness ==
    /\ pc = "extracted"
    /\ selected_pages = {1, 3}
    /\ schema_choice[3] = SchemaNames[2]
    /\ Len(calls) = 2
    /\ calls[2] = [page_num |-> 3, schema |-> SchemaNames[2], outcome |-> PageContent(3)]



-----------------------------------------------------------------------------
(* Properties of the review walk *)

\* the walk of the last script run went through the whole of final_json
WalkDone == final_json # Null /\ ReviewWalk(final_json, widget_state) # Raised

RECURSIVE SameShape(_, _)
\* b has the keys of a at every level and its nesting: a mapping where a has
\* one, with the same keys and order; a list of the same length where a has
\* one; a leaf where a has a leaf
SameShape(a, b) ==
    IF IsDict(a)
    THEN /\ IsDict(b)
         /\ Keys(b) = Keys(a)
         /\ \A k \in KeySet(a) : SameShape(Get(a, k), Get(b, k))
    ELSE IF IsList(a)
    THEN /\ IsList(b)
         /\ Len(b.v) = Len(a.v)
         /\ \A i \in 1..Len(a.v) : SameShape(a.v[i], b.v[i])
    ELSE ~IsDict(b) /\ ~IsList(b)

\* C4: the EditedDocument a walk produces (extracted_data) has the key set at
\* every level and the nesting shape of the Document the walk received
\* (final_json): a mapping stays a mapping with the same keys, a list stays a
\* list of the same length, only leaf values differ.
C4_ShapePreserved ==
    WalkDone => SameShape(final_json, extracted_data)

\* a list of mappings, the repeated entries of the review
IsRepeated(x) == IsList(x) /\ Len(x.v) > 0 /\ AllDicts(x)

\* a list of scalars
IsScalarList(x) == IsList(x) /\ \A i \in 1..Len(x.v) : ~IsDict(x.v[i]) /\ ~IsList(x.v[i])

\* the ordered non-empty strings of a list of scalars (the strings of the
\* documents carry no blanks to trim)
ScalarStrings(x) ==
    List(SelectSeq([i \in 1..Len(x.v) |-> Str(PyStr(x.v[i]))], LAMBDA e : e.v # ""))

\* what a walk without edits has to put where the Document holds a
RoundTrips(a, b) ==
    IF IsBool(a) \/ IsDict(a) \/ IsRepeated(a) THEN b = a
    ELSE IF IsScalarList(a) THEN b = ScalarStrings(a)
    ELSE TRUE

\* C5: a walk without edits reproduces exactly the booleans, the nested
\* mappings and the repeated entries of the Document it received, as a section
\* or as a field of a section, and puts the ordered non-empty strings of a
\* list of scalars in its place.
C5_NoEditRoundTrip ==
    (WalkDone /\ widget_state = <<>>) =>
        /\ IsDict(extracted_data)
        /\ Keys(extracted_data) = Keys(final_json)
        /\ \A section \in KeySet(final_json) :
              LET fields == Get(final_json, section)
                  edited == Get(extracted_data, section)
              IN  IF IsDict(fields)
                  THEN /\ IsDict(edited)
                       /\ Keys(edited) = Keys(fields)
                       /\ \A field \in KeySet(fields) :
                             RoundTrips(Get(fields, field), Get(edited, field))
                  ELSE RoundTrips(fields, edited)


-----------------------------------------------------------------------------
(* Properties of the export *)

\* "Send to Therap" wrote the official table in the last script run
Exported == export.status = "done"

RECURSIVE Leaves(_, _)
\* the leaves of mapping d, itself at the end of `path` from the root: every
\* value that is not a mapping, below mappings only, with its dotted path
Leaves(d, path) ==
    UNION {LET here == Append(path, d.v[i][1])
               v == d.v[i][2]
           IN  IF IsDict(v) THEN Leaves(v, here) ELSE {<<Join(".", here), v>>}
           : i \in 1..Len(d.v)}

\* C6: the flat record of an export holds one entry per leaf of the
\* EditedDocument, under the leaf's dotted path and with the leaf's value,
\* and nothing else: the flatten descends into every mapping at any depth and
\* stops at every other value, a list included, which becomes one entry.
C6_FlattenCoverage ==
    Exported =>
        LET flat == export.flat_data.v
        IN  /\ {<<flat[i][1], flat[i][2]>> : i \in 1..Len(flat)}
                  = Leaves(extracted_data, <<>>)
            /\ KeySet(export.flat_data) = {l[1] : l \in Leaves(extracted_data, <<>>)}
            /\ \A i, j \in 1..Len(flat) : flat[i][1] = flat[j][1] => i = j
            /\ \A i \in 1..Len(flat) : ~IsDict(flat[i][2])

\* C6 witness: an export of a document with a leaf three mappings deep, a list
\* of mappings and a list of scalars, each list one entry of the flat record
C6_Witness ==
    /\ Exported
    /\ HasKey(export.flat_data, "Consent.guardian.name")
    /\ HasKey(export.flat_data, "Visits")
    /\ IsRepeated(Get(export.flat_data, "Visits"))
    /\ HasKey(extracted_data, "Consent")
    /\ IsDict(Get(Get(extracted_data, "Consent"), "guardian"))

\* C7: the official table of an export has exactly the columns of the target
\* column order, in that order, whatever the flat record and the mapping, and
\* its row, if it has one, a cell in each of them.
C7_OfficialColumns ==
    Exported =>
        /\ export.official_df.columns = export.idf_cols
        /\ export.official_file
        /\ export.official_df.rows \in {0, 1}
        /\ export.official_df.rows = 1 =>
              KeySet(export.official_df.cell)
                  = {export.idf_cols[i] : i \in 1..Len(export.idf_cols)}

\* C7 witness: an export with three target columns, two that no mapping entry
\* targets and one whose source path is not in the flat record
C7_Witness ==
    /\ Exported
    /\ export.idf_cols = <<"DOB", "Meds", "PatientName">>
    /\ export.mapping = NameMapping
    /\ ~HasKey(export.flat_data, "Demographics.name")
    /\ Len(export.official_df.columns) = 3

\* the entries of the field mapping that give column col its source path: the
\* reverse lookup holds the last of them
SourcesOf(mapping, col) ==
    {i \in 1..Len(mapping.v) : Truthy(mapping.v[i][2]) /\ mapping.v[i][2].v = col}

LastOf(S) == CHOOSE i \in S : \A j \in S : j <= i

\* a cell of a table's row is empty: the table has no row, or the cell holds
\* the empty string or no value
EmptyCell(df, col) ==
    df.rows = 0 \/ (HasKey(df.cell, col) /\ Get(df.cell, col) \in {Str(""), NaN})

\* C8: a column of the official table holds the flat record's value for the
\* source path the field mapping gives the column, when it gives one and that
\* path is a key of the flat record, and is empty otherwise.
C8_OfficialValues ==
    Exported =>
        \A c \in 1..Len(export.idf_cols) :
            LET col == export.idf_cols[c]
                srcs == SourcesOf(export.mapping, col)
                source_key == export.mapping.v[LastOf(srcs)][1]
            IN  IF srcs # {} /\ HasKey(export.flat_data, source_key)
                THEN /\ export.official_df.rows = 1
                     /\ Get(export.official_df.cell, col)
                            = Get(export.flat_data, source_key)
                ELSE EmptyCell(export.official_df, col)

\* C8 witness: an export where PatientName, the target of two source paths
\* that are both in the flat record, holds the value of the later one, Meds
\* holds a list and DOB, whose source path is not in the flat record, is empty
C8_Witness ==
    /\ Exported
    /\ export.mapping = WideMapping
    /\ export.idf_cols = <<"DOB", "Meds", "PatientName">>
    /\ HasKey(export.flat_data, "Demographics.name")
    /\ HasKey(export.flat_data, "Demographics.phone")
    /\ export.official_df.rows = 1
    /\ Get(export.official_df.cell, "PatientName") = Get(export.flat_data, "Demographics.phone")
    /\ IsList(Get(export.official_df.cell, "Meds"))
    /\ Get(export.official_df.cell, "DOB") = NaN


\* the keys of a flat record, in its order, that are not in the set `sources`
KeysOutside(flat_data, sources) ==
    SelectSeq(Keys(flat_data), LAMBDA c : c \notin sources)

\* the extra table of an export holds exactly the columns `cols`, with the flat
\* record's value in each, and its file is written unless there is none
ExtraTableIs(cols) ==
    /\ export.extra_df.columns = cols
    /\ export.extra_file <=> cols # <<>>
    /\ cols # <<>> =>
          /\ export.extra_df.rows = 1
          /\ Keys(export.extra_df.cell) = cols
          /\ \A i \in 1..Len(cols) :
                Get(export.extra_df.cell, cols[i]) = Get(export.flat_data, cols[i])

\* C9 as claimed: the columns of the extra table are exactly the keys of the
\* flat record that are not a source path of the field mapping, in the flat
\* record's order, and no extra file is written when there is none, for every
\* field mapping, one where two source paths name the same target included.
C9_ExtraColumnsAllSources ==
    Exported => ExtraTableIs(KeysOutside(export.flat_data, KeySet(export.mapping)))

\* the target columns a field mapping names
Targets(mapping) ==
    {mapping.v[i][2].v : i \in {j \in 1..Len(mapping.v) : Truthy(mapping.v[j][2])}}

\* the source paths the reverse lookup holds: for each target column the
\* mapping names, the last source path that names it
KeptSources(mapping) ==
    {mapping.v[LastOf(SourcesOf(mapping, t))][1] : t \in Targets(mapping)}

\* no source path without a target column, no target column with two source paths
WellDefined(mapping) ==
    /\ \A i \in 1..Len(mapping.v) : Truthy(mapping.v[i][2])
    /\ \A t \in Targets(mapping) : Cardinality(SourcesOf(mapping, t)) = 1

\* C9: the columns of the extra table are exactly the keys of the flat record
\* that are not the source path the reverse lookup holds for a target column
\* (for each target column the mapping names, the last source path naming
\* it), in the flat record's order, and no extra file is written when there is
\* none.  A source path with an empty target, or whose target a later source
\* path names too, stays a column of the extra table; for a mapping without
\* such entries the columns are the keys that are not a source path at all.
C9_ExtraColumns ==
    Exported =>
        /\ ExtraTableIs(KeysOutside(export.flat_data, KeptSources(export.mapping)))
        /\ WellDefined(export.mapping) =>
              ExtraTableIs(KeysOutside(export.flat_data, KeySet(export.mapping)))

\* C9 witness: an export under a mapping with two source paths for
\* PatientName, both in the flat record: the earlier one is a column of the
\* extra table, the later one is not
C9_Witness ==
    /\ Exported
    /\ export.mapping = WideMapping
    /\ HasKey(export.flat_data, "Demographics.name")
    /\ HasKey(export.flat_data, "Demographics.phone")
    /\ export.extra_file
    /\ HasKey(export.extra_df.cell, "Demographics.name")
    /\ ~HasKey(export.extra_df.cell, "Demographics.phone")

\* the merged Document of the end-to-end example
ExampleDocument ==
    Dict(<< <<"Demographics", Dict(<< <<"name", Str("Jane Doe")>>,
                                      <<"age", Num(41)>>,
                                      <<"phone", Str("555-1000")>> >>)>>,
            <<"Medications", List(<< Dict(<< <<"drug", Str("Aspirin")>>,
                                             <<"dose", Str("81mg")>> >>) >>)>> >>)

\* C10: the Document of the example, reviewed without edits and exported with
\* the mapping {Demographics.name: PatientName} and the target columns
\* PatientName, DOB, gives the official row {PatientName: Jane Doe, DOB:
\* empty} and the extra table {Demographics.age: 41, Demographics.phone:
\* 555-1000, Medications.0.drug: Aspirin, Medications.0.dose: 81mg}.
C10_EndToEndExample ==
    (/\ Exported
     /\ document = ExampleDocument
     /\ widget_state = <<>>
     /\ export.mapping = NameMapping
     /\ export.idf_cols = <<"PatientName", "DOB">>) =>
        /\ export.official_file
        /\ export.official_df.columns = <<"PatientName", "DOB">>
        /\ export.official_df.rows = 1
        /\ Get(export.official_df.cell, "PatientName") = Str("Jane Doe")
        /\ EmptyCell(export.official_df, "DOB")
        /\ export.extra_file
        /\ export.extra_df.rows = 1
        /\ {<<export.extra_df.cell.v[i][1], export.extra_df.cell.v[i][2]>>
                : i \in 1..Len(export.extra_df.cell.v)}
              = { <<"Demographics.age", Num(41)>>,
                  <<"Demographics.phone", Str("555-1000")>>,
                  <<"Medications.0.drug", Str("Aspirin")>>,
                  <<"Medications.0.dose", Str("81mg")>> }


-----------------------------------------------------------------------------
(* Properties of the session *)

\* no file was written in the last script run
NoFileWritten == ~export.official_file /\ ~export.extra_file

\* C11: an export that is rejected writes no file.  While extraction is not
\* complete no script run reaches the export, and a click on "Send to Therap"
\* that finds the reviewed document empty, the IDF file missing or the mapping
\* file missing ends without the official file and without the extra file.
C11_RejectedExportWritesNothing ==
    /\ [](~extraction_complete => (export.status = "none" /\ NoFileWritten))
    /\ [](export.status \in {"none", "no_data", "no_idf", "raised"} => NoFileWritten)
    /\ [][\A env \in SessionEnvs :
             (Export(env) /\ (~Truthy(extracted_data') \/ ~env.idf \/ ~env.mapping_file))
                 => (export'.status \in {"no_data", "no_idf", "raised"}
                     /\ ~export'.official_file /\ ~export'.extra_file)]_vars

\* C11 witness: "Send to Therap" with a reviewed document to export and the
\* mapping file missing: the run raised and wrote nothing
C11_Witness ==
    /\ extraction_complete
    /\ Truthy(extracted_data)
    /\ export.status = "raised"
    /\ NoFileWritten


-----------------------------------------------------------------------------
(* Properties of the review walk: lists of scalars and numbers *)

\* a list of non-empty strings
IsStringList(x) ==
    IsList(x) /\ \A i \in 1..Len(x.v) : x.v[i].t = "str" /\ x.v[i].v # ""

\* C12: a field of a section that holds a list of scalars in the Document the
\* walk received is, after the walk, an ordered sequence of non-empty strings
\* in the EditedDocument, with or without edits: the strings of its elements
\* when its text was not edited.
C12_ScalarListStored ==
    WalkDone =>
        \A section \in KeySet(final_json) :
            LET fields == Get(final_json, section)
            IN  IsDict(fields) =>
                    \A field \in KeySet(fields) :
                        LET value == Get(fields, field)
                            edited == Get(Get(extracted_data, section), field)
                        IN  IsScalarList(value) =>
                                /\ IsStringList(edited)
                                /\ (section \o "_" \o field) \notin DOMAIN widget_state
                                      => edited = ScalarStrings(value)

IsNum(x) == x.t = "num"

\* C13: a numeric leaf of the Document the walk received, as a field of a
\* section or as a field of a repeated entry, is the same number in the
\* EditedDocument when its text was not edited.
C13_NumericStored ==
    (WalkDone /\ widget_state = <<>>) =>
        \A section \in KeySet(final_json) :
            LET fields == Get(final_json, section)
                edited == Get(extracted_data, section)
            IN  /\ IsDict(fields) =>
                      \A field \in KeySet(fields) :
                          IsNum(Get(fields, field)) =>
                              Get(edited, field) = Get(fields, field)
                /\ IsRepeated(fields) =>
                      \A i \in 1..Len(fields.v) :
                          \A subfield \in KeySet(fields.v[i]) :
                              IsNum(Get(fields.v[i], subfield)) =>
                                  Get(edited.v[i], subfield) = Get(fields.v[i], subfield)


\* the names of the schemas the script loaded
LoadedSchemas == {schema_files[i] : i \in 1..Len(schema_files)}

\* C14: no extraction call without a bound schema.  With no schema file the
\* session stays as init_state left it: no PDF is loaded, no page confirmed,
\* no extraction run and no export is ever reached.  Otherwise, while Run
\* Extraction executes, every selected page has an entry in page_schemas, a
\* schema that was loaded, and every call carries such a schema.
C14_SchemaBound ==
    /\ schema_files = <<>> =>
          /\ pdf_pages = 0 /\ last_pdf = "" /\ selected_pages = {}
          /\ ~pages_confirmed /\ ~schemas_confirmed /\ ~extraction_complete
          /\ pc = "idle" /\ calls = <<>>
          /\ extracted_data = Null
          /\ export.status = "none"
    /\ InRun =>
          /\ schema_files # <<>>
          /\ \A p \in selected_pages :
                /\ p \in DOMAIN page_schemas
                /\ page_schemas[p] \in LoadedSchemas
          /\ \A i \in 1..Len(selected) : selected[i] \in DOMAIN page_schemas
          /\ \A i \in 1..Len(calls) :
                /\ calls[i].schema \in LoadedSchemas
                /\ calls[i].schema = page_schemas[calls[i].page_num]

\* C14 witness: Run Extraction is in its loop over three selected pages, each
\* with its entry in page_schemas, page 2 with the schema the user chose for
\* it, and has called the service for pages 1 and 2
C14_Witness ==
    /\ pc = "extracting"
    /\ selected_pages = Pages(3)
    /\ DOMAIN page_schemas = Pages(3)
    /\ page_schemas[2] = SchemaNames[2]
    /\ page_schemas[3] = DefaultSchema
    /\ Len(calls) = 2
    /\ calls[2].schema = SchemaNames[2]


\* C15: the flags advance in workflow order.  schemas_confirmed holds only
\* with pages_confirmed, extraction_complete only with schemas_confirmed,
\* extracted_data is set exactly when extraction_complete holds, and a script
\* run reaches "Send to Therap" only when extraction_complete holds.
C15_WorkflowOrder ==
    /\ schemas_confirmed => pages_confirmed
    /\ extraction_complete => schemas_confirmed
    /\ pages_confirmed => pdf_pages > 0
    /\ (extracted_data # Null) <=> extraction_complete
    /\ export.status # "none" => extraction_complete
    /\ InRun => schemas_confirmed

\* C15 witness: every flag is set, the reviewed document is stored and the
\* export has written the official file
C15_Witness ==
    /\ pages_confirmed /\ schemas_confirmed /\ extraction_complete
    /\ IsDict(extracted_data)
    /\ export.status = "done"
    /\ export.official_file


\* C16: once the pages are confirmed, no step changes selected_pages while
\* the loaded PDF stays the same.
C16_SelectionFrozen ==
    [][(pages_confirmed /\ last_pdf' = last_pdf) => selected_pages' = selected_pages]_vars


\* C17: once extraction_complete is set, and as long as the loaded PDF stays
\* the same, no step clears it, starts an extraction run, calls the extraction
\* service or changes the merged Document.
C17_OneRunPerDocument ==
    [][(extraction_complete /\ last_pdf' = last_pdf) =>
           /\ extraction_complete'
           /\ pc' # "extracting"
           /\ calls' \in {calls, <<>>}
           /\ document' = document]_vars

\* C17 witness: extraction is complete and the user has since edited a field
\* of the review: the Document of the run is still the merged one
C17_Witness ==
    /\ extraction_complete
    /\ pc = "idle"
    /\ widget_state # <<>>
    /\ IsDict(document)
    /\ document # EmptyDict


\* C18: an upload under a name other than last_pdf resets the session: the
\* three flags are false, extracted_data and page_schemas are cleared,
\* page_order is 1..N and selected_pages all N pages of the new PDF; an upload
\* under the name of last_pdf leaves the session state as it is.
C18_UploadResets ==
    [][\A pdf \in Pdfs :
          Upload(pdf.name, pdf.pages) =>
              IF pdf.name # last_pdf
              THEN /\ ~pages_confirmed' /\ ~schemas_confirmed' /\ ~extraction_complete'
                   /\ extracted_data' = Null
                   /\ page_schemas' = <<>>
                   /\ pdf_pages' = pdf.pages
                   /\ last_pdf' = pdf.name
                   /\ page_order' = [i \in 1..pdf.pages |-> i]
                   /\ selected_pages' = Pages(pdf.pages)
              ELSE UNCHANGED <<pdf_pages, last_pdf, selected_pages, page_order,
                               page_schemas, pages_confirmed, schemas_confirmed,
                               extraction_complete, extracted_data>>]_vars

\* C18 witness: the one-page PDF b.pdf has just been uploaded: nothing is
\* confirmed, nothing extracted, no schema assigned, its page selected
C18_Witness ==
    /\ last_pdf = "b.pdf"
    /\ pdf_pages = 1
    /\ page_order = <<1>>
    /\ selected_pages = {1}
    /\ ~pages_confirmed /\ ~schemas_confirmed /\ ~extraction_complete
    /\ page_schemas = <<>>
    /\ extracted_data = Null


-----------------------------------------------------------------------------
(* Properties of the review across script runs *)

\* C19: the review is idempotent across script runs.  The document a walk
\* has stored is a fixpoint of the walk without edits, and a script run in
\* which the user changes no widget leaves the stored document as the run
\* before left it.
C19_WalkIdempotent ==
    /\ []((WalkDone /\ widget_state = <<>>) =>
              ReviewWalk(extracted_data, <<>>) = extracted_data)
    /\ [][(WalkDone /\ widget_state' = widget_state /\ document' = document) =>
              extracted_data' = extracted_data]_vars

\* C19 witness: a script run after the one of the extraction has walked the
\* stored document, which the first walk had changed, and stored it unchanged
C19_Witness ==
    /\ WalkDone
    /\ pc = "idle"
    /\ widget_state = <<>>
    /\ extracted_data # document
    /\ final_json = extracted_data


\* the official table holds, in column col, the flat record's value for key
PlacedIn(key, col) ==
    /\ \E c \in 1..Len(export.official_df.columns) : export.official_df.columns[c] = col
    /\ SourcesOf(export.mapping, col) # {}
    /\ export.mapping.v[LastOf(SourcesOf(export.mapping, col))][1] = key
    /\ export.official_df.rows = 1
    /\ Get(export.official_df.cell, col) = Get(export.flat_data, key)

\* C20: an export drops no leaf: every key of the flat record is a column of
\* the extra table or the source of the value of a column of the official
\* table, whatever the mapping and the target column order.
C20_NoLeafDropped ==
    Exported =>
        \A key \in KeySet(export.flat_data) :
            \/ \E c \in 1..Len(export.extra_df.columns) : export.extra_df.columns[c] = key
            \/ \E col \in Targets(export.mapping) : PlacedIn(key, col)

====
